---- MODULE Spec2Model ----
(***************************************************************************)
(* Model of the forecasting service (services/forecasting: the class       *)
(* ForecastingService and its module-level singleton) as a state machine.  *)
(*                                                                         *)
(* JavaScript numbers are modelled as exact values of the form             *)
(*     a + c * sqrt(m)      (a, c rational, m a squarefree integer)        *)
(* together with the IEEE-754 special values NaN, +Infinity and -Infinity. *)
(* Every arithmetic step the service performs on the inputs of the model   *)
(* stays inside this domain, so a result is the real number the code       *)
(* computes up to floating-point rounding, and the special values arise    *)
(* exactly where the code divides by zero.  The sign of zero is not        *)
(* modelled: every zero denominator the service can meet is +0.            *)
(***************************************************************************)
EXTENDS Integers, Sequences, FiniteSets, TLC

\* ------------------------------------------------------------------------
\* Bounds of the model
\* ------------------------------------------------------------------------
MaxLen == 3
MaxVal == 2
MaxPeriods == 2
MaxWindow == 4
MaxOrder == 2
MaxSamples == 2

\* ------------------------------------------------------------------------
\* Numbers.  A rational is <<n, d>> with d > 0 and gcd(n, d) = 1; a number is
\* NaN, an infinity, or a + c*sqrt(m) with a, c rational and m squarefree.
\* ------------------------------------------------------------------------
Abs(x) == IF x < 0 THEN -x ELSE x

Sgn(x) == IF x < 0 THEN -1 ELSE IF x > 0 THEN 1 ELSE 0

RECURSIVE GCD(_, _)
GCD(a, b) == IF b = 0 THEN a ELSE GCD(b, a % b)

\* the largest s with s*s dividing n, paired with n \div (s*s)
RECURSIVE SquarePart(_, _, _)
SquarePart(n, k, s) ==
    IF k * k > n THEN <<s, n>>
    ELSE IF n % (k * k) = 0 THEN SquarePart(n \div (k * k), k, s * k)
    ELSE SquarePart(n, k + 1, s)

RZero == <<0, 1>>

NaN == [t |-> "nan", a |-> RZero, c |-> RZero, m |-> 1]

Infinity(s) == [t |-> "inf", a |-> <<s, 1>>, c |-> RZero, m |-> 1]

IsZero(x) == x.t = "fin" /\ x.a[1] = 0 /\ x.c[1] = 0

\* The arithmetic of JavaScript numbers, one operation per value of op:
\*   on rationals  "rat" (n/d), "r+", "r-", "r*", "rinv" (1/x)
\*   on numbers    "fin" (<<a, c>> and m to a + c*sqrt(m) in canonical form),
\*                 "sign", "neg", "+", "-", "*", "recip", "/", "sqrt", "<="
RECURSIVE JS(_, _, _)
JS(op, x, y) ==
    LET Rat(n, d) == JS("rat", n, d)
        RAdd(u, v) == JS("r+", u, v)
        RSub(u, v) == JS("r-", u, v)
        RMul(u, v) == JS("r*", u, v)
        RInv(u) == JS("rinv", u, u)
        Fin(a, c, m) == JS("fin", <<a, c>>, m)
        Sign(u) == JS("sign", u, u)
    IN  CASE op = "rat" ->
                LET g == GCD(Abs(x), Abs(y))
                    s == IF y < 0 THEN -1 ELSE 1
                IN  <<s * (x \div g), s * (y \div g)>>
          [] op = "r+" ->
                LET g == GCD(x[2], y[2])
                IN  Rat(x[1] * (y[2] \div g) + y[1] * (x[2] \div g),
                        (x[2] \div g) * y[2])
          [] op = "r-" -> RAdd(x, <<-y[1], y[2]>>)
          [] op = "r*" ->
                LET g1 == GCD(Abs(x[1]), y[2])
                    g2 == GCD(Abs(y[1]), x[2])
                IN  <<(x[1] \div g1) * (y[1] \div g2), (x[2] \div g2) * (y[2] \div g1)>>
          [] op = "rinv" -> IF x[1] < 0 THEN <<-x[2], -x[1]>> ELSE <<x[2], x[1]>>
          [] op = "fin" ->
                IF x[2][1] = 0 \/ y = 0 \/ y = 1
                THEN [t |-> "fin",
                      a |-> IF y = 1 THEN RAdd(x[1], x[2]) ELSE x[1],
                      c |-> RZero, m |-> 1]
                ELSE [t |-> "fin", a |-> x[1], c |-> x[2], m |-> y]
          [] op = "sign" ->
                IF x.t = "inf" THEN x.a[1]
                ELSE LET sa == Sgn(x.a[1])
                         sc == Sgn(x.c[1])
                         a2 == RMul(x.a, x.a)
                         c2 == RMul(RMul(x.c, x.c), <<x.m, 1>>)
                     IN  IF sc = 0 THEN sa
                         ELSE IF sa = 0 \/ sa = sc THEN sc
                         ELSE IF Sgn(RSub(a2, c2)[1]) > 0 THEN sa ELSE sc
          [] op = "neg" ->
                IF x.t = "nan" THEN NaN
                ELSE IF x.t = "inf" THEN Infinity(-x.a[1])
                ELSE Fin(<<-x.a[1], x.a[2]>>, <<-x.c[1], x.c[2]>>, x.m)
          [] op = "+" ->
                IF x.t = "nan" \/ y.t = "nan" THEN NaN
                ELSE IF x.t = "inf" /\ y.t = "inf" THEN (IF x.a = y.a THEN x ELSE NaN)
                ELSE IF x.t = "inf" THEN x
                ELSE IF y.t = "inf" THEN y
                ELSE IF x.c[1] = 0 THEN Fin(RAdd(x.a, y.a), y.c, y.m)
                ELSE IF y.c[1] = 0 THEN Fin(RAdd(x.a, y.a), x.c, x.m)
                ELSE (CASE x.m = y.m -> Fin(RAdd(x.a, y.a), RAdd(x.c, y.c), x.m))
          [] op = "-" -> JS("+", x, JS("neg", y, y))
          [] op = "*" ->
                IF x.t = "nan" \/ y.t = "nan" THEN NaN
                ELSE IF x.t = "inf" \/ y.t = "inf"
                     THEN (IF IsZero(x) \/ IsZero(y) THEN NaN
                           ELSE Infinity(Sign(x) * Sign(y)))
                ELSE IF x.c[1] = 0 THEN Fin(RMul(x.a, y.a), RMul(x.a, y.c), y.m)
                ELSE IF y.c[1] = 0 THEN Fin(RMul(x.a, y.a), RMul(x.c, y.a), x.m)
                ELSE IF x.m = y.m
                     THEN Fin(RAdd(RMul(x.a, y.a), RMul(RMul(x.c, y.c), <<x.m, 1>>)),
                              RAdd(RMul(x.a, y.c), RMul(x.c, y.a)), x.m)
                ELSE (CASE x.a[1] = 0 /\ y.a[1] = 0 ->
                          LET g == GCD(x.m, y.m)
                          IN  Fin(RZero, RMul(RMul(x.c, y.c), <<g, 1>>),
                                  (x.m \div g) * (y.m \div g)))
          [] op = "recip" ->
                LET n == RSub(RMul(x.a, x.a), RMul(RMul(x.c, x.c), <<x.m, 1>>))
                IN  Fin(RMul(x.a, RInv(n)), RMul(<<-x.c[1], x.c[2]>>, RInv(n)), x.m)
          [] op = "/" ->
                IF x.t = "nan" \/ y.t = "nan" THEN NaN
                ELSE IF y.t = "inf"
                     THEN (IF x.t = "inf" THEN NaN ELSE Fin(RZero, RZero, 1))
                ELSE IF IsZero(y)
                     THEN (IF IsZero(x) THEN NaN ELSE Infinity(Sign(x)))
                ELSE IF x.t = "inf" THEN Infinity(Sign(x) * Sign(y))
                ELSE JS("*", x, JS("recip", y, y))
          [] op = "sqrt" ->
                IF x.t = "nan" THEN NaN
                ELSE IF x.t = "inf" THEN (IF x.a[1] > 0 THEN x ELSE NaN)
                ELSE IF Sign(x) < 0 THEN NaN
                ELSE (CASE x.c[1] = 0 ->
                          LET pn == SquarePart(x.a[1], 2, 1)
                              pd == SquarePart(x.a[2], 2, 1)
                          IN  Fin(RZero, Rat(pn[1], pd[1] * pd[2]), pn[2] * pd[2]))
          [] op = "<=" ->
                IF x.t = "nan" \/ y.t = "nan" THEN FALSE
                ELSE IF x.t = "inf" /\ y.t = "inf" THEN x.a[1] <= y.a[1]
                ELSE IF x.t = "inf" THEN x.a[1] < 0
                ELSE IF y.t = "inf" THEN y.a[1] > 0
                ELSE Sign(JS("-", y, x)) >= 0

\* the number n/d, and the integer n
Q(n, d) ==
    LET g == GCD(Abs(n), Abs(d))
    IN  [t |-> "fin", a |-> <<n \div g, d \div g>>, c |-> RZero, m |-> 1]

Num(n) == [t |-> "fin", a |-> <<n, 1>>, c |-> RZero, m |-> 1]

IsNaN(x) == x.t = "nan"

IsFinite(x) == x.t = "fin"

\* x + y, x - y, x * y, x / y, -x
Add(x, y) == JS("+", x, y)

Sub(x, y) == JS("-", x, y)

Mul(x, y) == JS("*", x, y)

Div(x, y) == JS("/", x, y)

Neg(x) == JS("neg", x, x)

\* Math.sqrt(x), Math.pow(x, 2)
Sqrt(x) == JS("sqrt", x, x)

Square(x) == JS("*", x, x)

\* x <= y, x < y as JavaScript compares numbers: false as soon as one is NaN
Leq(x, y) == JS("<=", x, y)

Less(x, y) == IF x.t = "nan" \/ y.t = "nan" THEN FALSE ELSE ~JS("<=", y, x)

\* the sign of a number that is not NaN
Sign(x) == JS("sign", x, x)

\* ------------------------------------------------------------------------
\* Other JavaScript values, and the coercions the service applies to them
\* ------------------------------------------------------------------------
Undefined == [t |-> "undefined"]

Str(s) == [t |-> "str", s |-> s]

IsNumber(v) == v.t \in {"fin", "inf", "nan"}

Null == [t |-> "null"]

\* ToNumber, for the values of the model: null becomes 0, undefined becomes NaN
ToNumber(v) == IF IsNumber(v) THEN v ELSE IF v.t = "null" THEN Num(0) ELSE NaN

\* ToBoolean
Truthy(v) ==
    CASE v.t = "undefined" -> FALSE
      [] v.t = "str" -> v.s # ""
      [] v.t = "nan" -> FALSE
      [] v.t = "inf" -> TRUE
      [] v.t = "fin" -> ~IsZero(v)

\* a || b
Or(a, b) == IF Truthy(a) THEN a ELSE b

\* o.k for an object o given as a function from its own keys
Get(o, k) == IF k \in DOMAIN o THEN o[k] ELSE Undefined

\* { ...b, ...a }: the keys of a win
SpreadUnder(a, b) ==
    [k \in DOMAIN a \cup DOMAIN b |-> IF k \in DOMAIN a THEN a[k] ELSE b[k]]

\* { ...a, ...b }
Spread(a, b) ==
    [k \in DOMAIN a \cup DOMAIN b |-> IF k \in DOMAIN b THEN b[k] ELSE a[k]]

\* a[i] for a JavaScript array a (0-based) held as a sequence
At(a, i) == IF i >= 0 /\ i < Len(a) THEN a[i + 1] ELSE Undefined

IsInteger(v) == v.t = "fin" /\ v.c[1] = 0 /\ v.a[2] = 1

IntOf(v) == v.a[1]

\* a.reduce((sum, value) => sum + value, 0)
RECURSIVE Sum(_)
Sum(a) == IF a = <<>> THEN Num(0) ELSE Add(Sum(SubSeq(a, 1, Len(a) - 1)), ToNumber(a[Len(a)]))

\* a.slice(from, to) for 0 <= from <= to
Slice(a, from, to) == SubSeq(a, from + 1, IF to > Len(a) THEN Len(a) ELSE to)

\* Array(n).fill(v); a RangeError unless n is an integer >= 0
Fill(n, v) == [i \in 1..n |-> v]

ValidArrayLength(v) == IsInteger(v) /\ IntOf(v) >= 0

\* the number of rounds of for (let i = from; i <= to; i++)
Rounds(from, to) ==
    IF ~IsNumber(to) \/ to.t = "nan" THEN 0
    ELSE IF to.t = "inf" THEN (IF to.a[1] > 0 THEN -1 ELSE 0)
    ELSE IF Leq(Num(from), to)
         THEN (to.a[1] \div to.a[2]) - from + 1
         ELSE 0

\* ------------------------------------------------------------------------
\* What a call ends with
\* ------------------------------------------------------------------------
Throw(name, message) == [kind |-> "error", name |-> name, message |-> message]

MsgData == "Historical data must be an array with at least 2 data points"

MsgWindow == "Window size cannot be larger than the historical data length"

MsgMethod == "Forecasting method not supported"

tValue == Q(196, 100)

\* ------------------------------------------------------------------------
\* linearRegression(historicalData, options)
\* ------------------------------------------------------------------------
\* lines 58-70: the regression parameters
LinearParameters(y) ==
    LET n == Len(y)
        x == [k \in 1..n |-> Num(k)]
        sumX == Sum(x)
        sumY == Sum(y)
        sumXY == Sum([k \in 1..n |-> Mul(x[k], ToNumber(y[k]))])
        sumX2 == Sum([k \in 1..n |-> Mul(x[k], x[k])])
        slope == Div(Sub(Mul(Num(n), sumXY), Mul(sumX, sumY)),
                     Sub(Mul(Num(n), sumX2), Mul(sumX, sumX)))
    IN  [n |-> n, sumX |-> sumX, sumY |-> sumY, slope |-> slope]

\* an intercept that leaves out the slope: sumY / n
LinearInterceptOfMean(par) ==
    [n |-> par.n,
     sumY |-> par.sumY,
     slope |-> par.slope,
     intercept |-> Div(par.sumY, Num(par.n))]

LinearIntercept(par) ==
    [n |-> par.n,
     sumY |-> par.sumY,
     slope |-> par.slope,
     intercept |-> Div(Sub(par.sumY, Mul(par.slope, par.sumX)), Num(par.n))]

\* a forecast loop that starts at i = 0
LinearForecastFromZero(fit, periods) ==
    [i \in 1..Rounds(0, periods) |-> Add(fit.intercept, Mul(fit.slope, Num(fit.n + (i - 1))))]

\* lines 72-78: the forecast values
LinearForecast(fit, periods) ==
    [i \in 1..Rounds(1, periods) |-> Add(fit.intercept, Mul(fit.slope, Num(fit.n + i)))]

\* lines 80-90: the error metrics and R-squared
LinearSse(y, fit) ==
    LET fitted == [k \in 1..fit.n |-> Add(fit.intercept, Mul(fit.slope, Num(k)))]
        residuals == [k \in 1..fit.n |-> Sub(ToNumber(y[k]), fitted[k])]
    IN  Sum([k \in 1..fit.n |-> Square(residuals[k])])

LinearTss(y, meanY) == Sum([k \in 1..Len(y) |-> Square(Sub(ToNumber(y[k]), meanY))])

LinearErrors(y, fit, sse, meanY, totalSumOfSquares) ==
    [sse |-> sse,
     rmse |-> Sqrt(Div(sse, Num(fit.n))),
     meanY |-> meanY,
     totalSumOfSquares |-> totalSumOfSquares,
     rSquared |-> Sub(Num(1), Div(sse, totalSumOfSquares)),
     standardError |-> Sqrt(Div(sse, Num(fit.n - 2)))]

\* lines 92-105: the prediction intervals
LinearInterval(value, width) ==
    [lower |-> Sub(value, Mul(tValue, width)),
     upper |-> Add(value, Mul(tValue, width))]

LinearIntervals(fit, err, forecast) ==
    [i \in 1..Len(forecast) |->
        LinearInterval(forecast[i],
            Mul(err.standardError,
                Sqrt(Add(Add(Num(1), Div(Num(1), Num(fit.n))),
                         Div(Square(Sub(Num(fit.n + i), err.meanY)),
                             err.totalSumOfSquares)))))]

\* lines 107-118: the result
LinearResult(historicalData, fit, err, forecast) ==
    [kind |-> "result",
     method |-> "linear",
     historicalData |-> historicalData,
     forecast |-> forecast,
     predictionIntervals |-> LinearIntervals(fit, err, forecast),
     statistics |-> [slope |-> fit.slope, intercept |-> fit.intercept,
                     rSquared |-> err.rSquared, rmse |-> err.rmse]]

LinearMetrics(historicalData, fit, forecast, meanY) ==
    LinearResult(historicalData, fit,
                 LinearErrors(historicalData.elems, fit,
                              LinearSse(historicalData.elems, fit), meanY,
                              LinearTss(historicalData.elems, meanY)),
                 forecast)

LinearFitted(historicalData, options, fit) ==
    LinearMetrics(historicalData, fit,
                  LinearForecast(fit, Get(options, "periods")),
                  Div(fit.sumY, Num(fit.n)))

linearRegression(historicalData, options) ==
    LinearFitted(historicalData, options,
                 LinearIntercept(LinearParameters(historicalData.elems)))

\* ------------------------------------------------------------------------
\* exponentialSmoothing(historicalData, options)
\* ------------------------------------------------------------------------
\* a smoothing that weighs the previous observation, historicalData[i - 1],
\* where line 136 weighs the previous smoothed value
RECURSIVE SmoothedOverActual(_, _, _)
SmoothedOverActual(y, alpha, i) ==
    IF i = 1 THEN <<At(y, 0)>>
    ELSE Append(SmoothedOverActual(y, alpha, i - 1),
                Add(Mul(alpha, ToNumber(At(y, i - 1))),
                    Mul(Sub(Num(1), alpha), ToNumber(At(y, i - 2)))))

\* the array smoothed after the loop has handled the indices below i
RECURSIVE Smoothed(_, _, _)
Smoothed(y, alpha, i) ==
    IF i = 1 THEN <<At(y, 0)>>
    ELSE LET before == Smoothed(y, alpha, i - 1)
         IN  Append(before,
                    Add(Mul(alpha, ToNumber(At(y, i - 1))),
                        Mul(Sub(Num(1), alpha), ToNumber(before[i - 1]))))

MsgLength == "Invalid array length"

\* an interval that starts at the value instead of lying around it
IntervalAbove(value, interval) ==
    [lower |-> ToNumber(value),
     upper |-> Add(ToNumber(value), interval)]

\* lines 155-165: the prediction intervals, symmetric around the forecast
Interval(value, interval) ==
    [lower |-> Sub(ToNumber(value), interval),
     upper |-> Add(ToNumber(value), interval)]

\* lines 146-176: the error metrics, the intervals and the result
ExponentialResult(historicalData, alpha, forecast, mse) ==
    [kind |-> "result",
     method |-> "exponential",
     historicalData |-> historicalData,
     forecast |-> forecast,
     predictionIntervals |->
         [k \in 1..Len(forecast) |->
             Interval(forecast[k],
                      Mul(Mul(tValue, Sqrt(mse)), Sqrt(Num(1 + ((k - 1) + 1)))))],
     statistics |-> [alpha |-> alpha, rmse |-> Sqrt(mse)]]

ExponentialMse(y, smoothed) ==
    LET errors == [k \in 1..Len(y) |->
                      IF k = 1 THEN Num(0)
                      ELSE Sub(ToNumber(y[k]), ToNumber(smoothed[k - 1]))]
        sse == Sum([k \in 1..Len(y) |-> Square(errors[k])])
    IN  Div(sse, Num(Len(y) - 1))

\* lines 140-144: the forecast, flat at the last smoothed value
ExponentialForecast(historicalData, periods, alpha, smoothed) ==
    IF ~ValidArrayLength(periods) THEN Throw("RangeError", MsgLength)
    ELSE ExponentialResult(historicalData, alpha,
                           Fill(IntOf(periods), smoothed[Len(smoothed)]),
                           ExponentialMse(historicalData.elems, smoothed))

ExponentialSmoothed(historicalData, options, alpha) ==
    ExponentialForecast(historicalData, Get(options, "periods"), alpha,
                        Smoothed(historicalData.elems, alpha, Len(historicalData.elems)))

exponentialSmoothing(historicalData, options) ==
    ExponentialSmoothed(historicalData, options, Or(Get(options, "alpha"), Q(3, 10)))

\* ------------------------------------------------------------------------
\* movingAverage(historicalData, options)
\* ------------------------------------------------------------------------
\* lines 206-239: the error metrics, the intervals and the result
MovingAverageResult(historicalData, windowSize, forecast, mse) ==
    [kind |-> "result",
     method |-> "moving-average",
     historicalData |-> historicalData,
     forecast |-> forecast,
     predictionIntervals |->
         [k \in 1..Len(forecast) |->
             Interval(forecast[k],
                      Mul(Mul(tValue, Sqrt(mse)),
                          Sqrt(Add(Num(1), Div(Num((k - 1) + 1), windowSize)))))],
     statistics |-> [windowSize |-> windowSize, rmse |-> Sqrt(mse)]]

\* errors[k] is the error pushed in the round i = windowSize - 1 + (k - 1)
MovingAverageMse(y, w, movingAverages) ==
    LET errors == [k \in 1..(Len(y) - w + 1) |->
                      Sub(ToNumber(At(y, w - 1 + (k - 1))),
                          ToNumber(At(movingAverages, (w - 1 + (k - 1)) - w + 1)))]
        sse == Sum([k \in 1..Len(errors) |-> Square(errors[k])])
    IN  Div(sse, Num(Len(errors)))

\* a forecast flat at the first moving average, movingAverages[0]
MovingAverageForecastFirst(historicalData, periods, windowSize, movingAverages) ==
    IF ~ValidArrayLength(periods) THEN Throw("RangeError", MsgLength)
    ELSE MovingAverageResult(historicalData, windowSize,
                             Fill(IntOf(periods), At(movingAverages, 0)),
                             MovingAverageMse(historicalData.elems, IntOf(windowSize),
                                              movingAverages))

\* lines 200-204: the forecast, flat at the last moving average
MovingAverageForecast(historicalData, periods, windowSize, movingAverages) ==
    IF ~ValidArrayLength(periods) THEN Throw("RangeError", MsgLength)
    ELSE MovingAverageResult(historicalData, windowSize,
                             Fill(IntOf(periods), At(movingAverages, Len(movingAverages) - 1)),
                             MovingAverageMse(historicalData.elems, IntOf(windowSize),
                                              movingAverages))

\* lines 192-198: movingAverages[k] is the average pushed in the round
\* i = windowSize - 1 + (k - 1)
MovingAverages(y, windowSize) ==
    [k \in 1..(Len(y) - IntOf(windowSize) + 1) |->
        Div(Sum(Slice(y, (IntOf(windowSize) - 1 + (k - 1)) - IntOf(windowSize) + 1,
                      (IntOf(windowSize) - 1 + (k - 1)) + 1)),
            windowSize)]

\* a check that also refuses a window as long as the series
MovingAverageWindowBelow(historicalData, options, windowSize) ==
    IF Leq(Num(Len(historicalData.elems)), windowSize) THEN Throw("Error", MsgWindow)
    ELSE MovingAverageForecast(historicalData, Get(options, "periods"), windowSize,
                               MovingAverages(historicalData.elems, windowSize))

\* lines 188-198
MovingAverageWindow(historicalData, options, windowSize) ==
    IF Less(Num(Len(historicalData.elems)), windowSize) THEN Throw("Error", MsgWindow)
    ELSE MovingAverageForecast(historicalData, Get(options, "periods"), windowSize,
                               MovingAverages(historicalData.elems, windowSize))

movingAverage(historicalData, options) ==
    MovingAverageWindow(historicalData, options, Or(Get(options, "windowSize"), Num(3)))

\* ------------------------------------------------------------------------
\* diff, undiff, standardDeviation
\* ------------------------------------------------------------------------
diff(data) ==
    IF Len(data) < 2 THEN <<>>
    ELSE [k \in 1..(Len(data) - 1) |-> Sub(ToNumber(data[k + 1]), ToNumber(data[k]))]

\* the array result of undiff after i rounds of its loop
RECURSIVE Undiffed(_, _, _)
Undiffed(diffData, lastValue, i) ==
    IF i = 0 THEN <<lastValue>>
    ELSE LET result == Undiffed(diffData, lastValue, i - 1)
         IN  Append(result, Add(ToNumber(result[i]), ToNumber(diffData[i])))

\* a cumulative sum that starts from 0 instead of the last value
undiffFromZero(diffData, lastValue) ==
    LET result == Undiffed(diffData, Num(0), Len(diffData))
    IN  SubSeq(result, 2, Len(result))

undiff(diffData, lastValue) ==
    LET result == Undiffed(diffData, lastValue, Len(diffData))
    IN  SubSeq(result, 2, Len(result))

standardDeviation(data) ==
    LET n == Len(data)
        mean == Div(Sum(data), Num(n))
        squaredDiffs == [k \in 1..n |-> Square(Sub(ToNumber(data[k]), mean))]
        variance == Div(Sum(squaredDiffs), Num(n))
    IN  Sqrt(variance)

\* ------------------------------------------------------------------------
\* arima(historicalData, options)
\* ------------------------------------------------------------------------
\* A working array is held with the note whether it is the caller's array
\* itself (alias) or an array of its own.
\* diffData = historicalData: the caller's array itself
ArrayAlias(historicalData) == [alias |-> TRUE, elems |-> historicalData.elems]

\* [...historicalData]: a new array holding the elements of historicalData
ArrayCopy(historicalData) == [alias |-> FALSE, elems |-> historicalData.elems]

\* data after: for (let i = 0; i < d; i++) data = this.diff(data)
RECURSIVE Differenced(_, _)
Differenced(data, d) ==
    IF d <= 0 THEN data
    ELSE [alias |-> FALSE, elems |-> diff(Differenced(data, d - 1).elems)]

\* the AR component of one forecast step over the working array
RECURSIVE ArComponent(_, _, _)
ArComponent(diffData, arParams, j) ==
    IF j = 0 THEN Num(0)
    ELSE LET index == Len(diffData) - (j - 1) - 1
             sofar == ArComponent(diffData, arParams, j - 1)
         IN  IF index >= 0
             THEN Add(sofar, Mul(arParams[j], ToNumber(At(diffData, index))))
             ELSE sofar

\* a forecast loop that leaves the working array as it is: every step sees
\* the data only, and no earlier forecast
RECURSIVE ArLoopOverData(_, _, _)
ArLoopOverData(diffData, arParams, i) ==
    IF i <= 0 THEN [diffData |-> diffData, diffForecast |-> <<>>]
    ELSE LET before == ArLoopOverData(diffData, arParams, i - 1)
             forecast == ArComponent(before.diffData.elems, arParams, Len(arParams))
         IN  [diffData |-> before.diffData,
              diffForecast |-> Append(before.diffForecast, forecast)]

\* the working array and diffForecast after i rounds of the forecast loop
RECURSIVE ArLoop(_, _, _)
ArLoop(diffData, arParams, i) ==
    IF i <= 0 THEN [diffData |-> diffData, diffForecast |-> <<>>]
    ELSE LET before == ArLoop(diffData, arParams, i - 1)
             forecast == ArComponent(before.diffData.elems, arParams, Len(arParams))
         IN  [diffData |-> [before.diffData EXCEPT !.elems = Append(@, forecast)],
              diffForecast |-> Append(before.diffForecast, forecast)]

\* forecast after: for (let i = 0; i < d; i++) forecast = this.undiff(forecast, historicalData[n-1-i])
RECURSIVE Undifferenced(_, _, _)
Undifferenced(forecast, data, d) ==
    IF d <= 0 THEN forecast
    ELSE undiff(Undifferenced(forecast, data, d - 1), At(data, Len(data) - 1 - (d - 1)))

\* the number of rounds of for (let i = 0; i < to; i++)
RoundsBelow(to) ==
    IF ~IsNumber(to) \/ to.t = "nan" THEN 0
    ELSE IF to.t = "inf" THEN (IF to.a[1] > 0 THEN -1 ELSE 0)
    ELSE IF Sign(to) > 0 THEN -((-to.a[1]) \div to.a[2]) ELSE 0

\* lines 293-315: the prediction intervals and the result
ArimaResult(historicalData, orders, forecast, stdDev) ==
    [kind |-> "result",
     method |-> "arima",
     historicalData |-> historicalData,
     forecast |-> forecast,
     predictionIntervals |->
         [k \in 1..Len(forecast) |->
             Interval(forecast[k], Mul(Mul(tValue, stdDev), Sqrt(Num((k - 1) + 1))))],
     statistics |-> orders]

\* lines 287-294, with the caller's array as the forecast loop leaves it
ArimaUndo(historicalData, orders, diffForecast) ==
    ArimaResult(historicalData, orders,
                Undifferenced(diffForecast, historicalData.elems, RoundsBelow(orders.d)),
                standardDeviation(historicalData.elems))

\* a forecast loop that pushes each forecast onto the caller's array as well,
\* once the statistics of the result are taken
ArimaLoopedOntoInput(historicalData, orders, loop) ==
    [ArimaUndo(historicalData, orders, loop.diffForecast)
        EXCEPT !.historicalData = [@ EXCEPT !.elems = @ \o loop.diffForecast]]

\* lines 269-285: the caller's array is the working array if that is an alias
ArimaLooped(historicalData, orders, loop) ==
    ArimaUndo(IF loop.diffData.alias
              THEN [historicalData EXCEPT !.elems = loop.diffData.elems]
              ELSE historicalData,
              orders, loop.diffForecast)

\* an AR model whose lags and weights are taken from the MA order
ArimaOrdersByQ(historicalData, periods, orders) ==
    IF ~ValidArrayLength(orders.p) \/ ~ValidArrayLength(orders.q)
    THEN Throw("RangeError", MsgLength)
    ELSE ArimaLooped(historicalData, orders,
                     ArLoop(Differenced(ArrayCopy(historicalData), RoundsBelow(orders.d)),
                            Fill(IntOf(orders.q), Div(Q(7, 10), orders.q)),
                            RoundsBelow(periods)))

\* lines 258-267
ArimaOrders(historicalData, periods, orders) ==
    IF ~ValidArrayLength(orders.p) \/ ~ValidArrayLength(orders.q)
    THEN Throw("RangeError", MsgLength)
    ELSE ArimaLooped(historicalData, orders,
                     ArLoop(Differenced(ArrayCopy(historicalData), RoundsBelow(orders.d)),
                            Fill(IntOf(orders.p), Div(Q(7, 10), orders.p)),
                            RoundsBelow(periods)))

\* an AR order that falls back on the window of the moving average
arimaOverWindow(historicalData, options) ==
    ArimaOrders(historicalData, Get(options, "periods"),
                [p |-> Or(Get(options, "p"), Or(Get(options, "windowSize"), Num(1))),
                 d |-> Or(Get(options, "d"), Num(0)),
                 q |-> Or(Get(options, "q"), Num(1))])

arima(historicalData, options) ==
    ArimaOrders(historicalData, Get(options, "periods"),
                [p |-> Or(Get(options, "p"), Num(1)),
                 d |-> Or(Get(options, "d"), Num(0)),
                 q |-> Or(Get(options, "q"), Num(1))])

\* ------------------------------------------------------------------------
\* generateForecast(historicalData, options = {}) of the service this
\* ------------------------------------------------------------------------
\* a test that takes every value with a length and elements for an array
IsArrayLike(v) == v.kind \in {"array", "typed"}

\* Array.isArray(v)
IsArray(v) == v.kind = "array"

\* what a call leaves behind: the completion (a result or a thrown error), the
\* method implementations it invoked, the caller's array and the service
Done(this, historicalData, invoked, completion) ==
    [completion |-> completion,
     invoked |-> invoked,
     historicalData |-> IF completion.kind = "result"
                        THEN completion.historicalData
                        ELSE historicalData,
     this |-> this]

\* Object.assign(this.defaultOptions, options): the merged options are the
\* service's own defaultOptions object
AssignOptions(this, options) ==
    [this |-> [this EXCEPT !.defaultOptions = Spread(@, options)],
     forecastOptions |-> Spread(this.defaultOptions, options)]

\* line 29, { ...this.defaultOptions, ...options }: a new object holds the merged
\* options, and the service is left as it is
MergeOptions(this, options) ==
    [this |-> this, forecastOptions |-> Spread(this.defaultOptions, options)]

\* a switch whose default clause falls back to the linear method
CaseOfOrLinear(method) ==
    IF method \in {Str("linear"), Str("exponential"), Str("moving-average"), Str("arima")}
    THEN method.s
    ELSE "linear"

\* switch (forecastOptions.method): the clause whose label is strictly equal to
\* the value, or else the default clause
CaseOf(method) ==
    IF method \in {Str("linear"), Str("exponential"), Str("moving-average"), Str("arima")}
    THEN method.s
    ELSE "default"

\* lines 31-48
Dispatch(merged, historicalData, clause) ==
    IF ~IsArray(historicalData) \/ Len(historicalData.elems) < 2
    THEN Done(merged.this, historicalData, <<>>, Throw("Error", MsgData))
    ELSE CASE clause = "linear" ->
                Done(merged.this, historicalData, <<"linearRegression">>,
                     linearRegression(historicalData, merged.forecastOptions))
           [] clause = "exponential" ->
                Done(merged.this, historicalData, <<"exponentialSmoothing">>,
                     exponentialSmoothing(historicalData, merged.forecastOptions))
           [] clause = "moving-average" ->
                Done(merged.this, historicalData, <<"movingAverage">>,
                     movingAverage(historicalData, merged.forecastOptions))
           [] clause = "arima" ->
                Done(merged.this, historicalData, <<"arima">>,
                     arima(historicalData, merged.forecastOptions))
           [] clause = "default" ->
                Done(merged.this, historicalData, <<>>, Throw("Error", MsgMethod))

Merged(merged, historicalData) ==
    Dispatch(merged, historicalData, CaseOf(Get(merged.forecastOptions, "method")))

generateForecast(this, historicalData, options) ==
    Merged(MergeOptions(this, options), historicalData)

\* ------------------------------------------------------------------------
\* boxMullerTransform() and monteCarloSimulation(historicalData, options = {})
\* ------------------------------------------------------------------------
\* Math.random() returns a number u with 0 <= u < 1.  A call of the transform
\* makes two draws <<u1, u2>>; the draws of the model are the u at which
\* Math.log(u1) and Math.cos(2.0 * Math.PI * u2) are rational or infinite.
LogDraws == {"0", "exp(-1/2)"}

CosDraws == {"0", "1/2"}

\* Math.log(u)
Log(u) ==
    CASE u = "0" -> Infinity(-1)
      [] u = "exp(-1/2)" -> Q(-1, 2)

\* Math.cos(2.0 * Math.PI * u)
Cos2Pi(u) ==
    CASE u = "0" -> Num(1)
      [] u = "1/2" -> Num(-1)

boxMullerTransform(draws) ==
    Mul(Sqrt(Mul(Num(-2), Log(draws[1]))), Cos2Pi(draws[2]))

\* Math.floor(x)
Floor(x) == IF IsFinite(x) /\ x.c[1] = 0 THEN Num(x.a[1] \div x.a[2]) ELSE x

\* a[x] for a number x
Element(a, x) == IF IsInteger(x) THEN At(a, IntOf(x)) ELSE Undefined

\* lines 364-366
MonteCarloParameters(options) ==
    [iterations |-> Or(Get(options, "iterations"), Num(1000)),
     periods |-> Or(Get(options, "periods"), Num(5)),
     confidenceLevel |-> Or(Get(options, "confidence"), Q(95, 100))]

\* the number of calls of boxMullerTransform in a call with these options
Samples(options) ==
    RoundsBelow(MonteCarloParameters(options).iterations)
        * RoundsBelow(MonteCarloParameters(options).periods)

\* lines 369-372
PercentChanges(y) ==
    IF Len(y) < 2 THEN <<>>
    ELSE [k \in 1..(Len(y) - 1) |->
             Sub(Div(ToNumber(y[k + 1]), ToNumber(y[k])), Num(1))]

\* line 375
PercentVariance(percentChanges, mean) ==
    Div(Sum([k \in 1..Len(percentChanges) |-> Square(Sub(percentChanges[k], mean))]),
        Num(Len(percentChanges)))

\* lines 383-392: the array simulation after j rounds of the inner loop of
\* iteration i; random[i * periods + j] holds the draws of that round
RECURSIVE Simulation(_, _, _, _, _, _)
Simulation(lastValue, moments, random, periods, i, j) ==
    IF j = 0 THEN <<lastValue>>
    ELSE LET simulation == Simulation(lastValue, moments, random, periods, i, j - 1)
             rand == boxMullerTransform(random[i * periods + (j - 1) + 1])
             percentChange == Add(moments.mean, Mul(moments.stdDev, rand))
         IN  Append(simulation,
                    Mul(ToNumber(simulation[(j - 1) + 1]), Add(Num(1), percentChange)))

\* lines 379-394
Simulations(lastValue, moments, random, iterations, periods) ==
    [k \in 1..iterations |->
        SubSeq(Simulation(lastValue, moments, random, periods, k - 1, periods),
               2, periods + 1)]

\* line 401, and an order the sort of line 402 may leave the values in
PeriodValues(simulations, i, order) ==
    [k \in 1..Len(simulations) |-> simulations[order[k]][(i - 1) + 1]]

\* periodValues.sort((a, b) => a - b) leaves no element directly before one
\* that the comparator puts before it.  With a comparator that answers NaN
\* (taken as 0) the order is otherwise left to the engine.
Ascending(periodValues) ==
    \A k \in 1..(Len(periodValues) - 1) :
        ~Less(Num(0), Sub(periodValues[k], periodValues[k + 1]))

\* (with no period the loop of line 400 has no round, and nothing is sorted)
SortOrders(simulations, periods) ==
    IF periods <= 0 THEN {<<>>}
    ELSE {order \in [1..periods -> Permutations(1..Len(simulations))] :
             \A i \in 1..periods : Ascending(PeriodValues(simulations, i, order[i]))}

\* a point forecast that is the median of the sorted values
PeriodMedian(periodValues, par) ==
    Element(periodValues, Floor(Div(par.iterations, Num(2))))

\* lines 404-415, for the sorted values of one period
PeriodForecast(periodValues, par) == Div(Sum(periodValues), par.iterations)

PeriodInterval(periodValues, par) ==
    [lower |-> Element(periodValues,
                       Floor(Div(Mul(par.iterations, Sub(Num(1), par.confidenceLevel)),
                                 Num(2)))),
     upper |-> Element(periodValues,
                       Floor(Mul(par.iterations,
                                 Sub(Num(1), Div(Sub(Num(1), par.confidenceLevel),
                                                 Num(2))))))]

\* lines 396-428
MonteCarloResult(historicalData, par, moments, simulations, periods, order) ==
    [kind |-> "result",
     method |-> "monte-carlo",
     historicalData |-> historicalData,
     forecast |-> [i \in 1..periods |->
                      PeriodForecast(PeriodValues(simulations, i, order[i]), par)],
     predictionIntervals |-> [i \in 1..periods |->
                      PeriodInterval(PeriodValues(simulations, i, order[i]), par)],
     statistics |-> [iterations |-> par.iterations,
                     mean |-> moments.mean,
                     stdDev |-> moments.stdDev]]

MsgNull == "Cannot read properties of null (reading 'length')"

\* what a call may end with, one outcome for each order the sorts may leave
MonteCarloSorted(this, historicalData, par, moments, simulations, periods) ==
    {Done(this, historicalData, <<"monteCarloSimulation">>,
          MonteCarloResult(historicalData, par, moments, simulations, periods, order)) :
        order \in SortOrders(simulations, periods)}

MonteCarloSimulated(this, historicalData, par, moments, random) ==
    MonteCarloSorted(this, historicalData, par, moments,
                     Simulations(At(historicalData.elems, Len(historicalData.elems) - 1),
                                 moments, random,
                                 RoundsBelow(par.iterations), RoundsBelow(par.periods)),
                     RoundsBelow(par.periods))

MonteCarloMoments(this, historicalData, par, random, percentChanges, mean) ==
    MonteCarloSimulated(this, historicalData, par,
                        [mean |-> mean,
                         stdDev |-> Sqrt(PercentVariance(percentChanges, mean))],
                        random)

MonteCarloChanges(this, historicalData, par, random, percentChanges) ==
    MonteCarloMoments(this, historicalData, par, random, percentChanges,
                      Div(Sum(percentChanges), Num(Len(percentChanges))))

\* the outcomes of a call in which the calls of boxMullerTransform draw random
monteCarloSimulation(this, historicalData, options, random) ==
    IF historicalData.kind = "null"
    THEN {Done(this, historicalData, <<"monteCarloSimulation">>,
               Throw("TypeError", MsgNull))}
    ELSE MonteCarloChanges(this, historicalData, MonteCarloParameters(options), random,
                           PercentChanges(historicalData.elems))

\* ------------------------------------------------------------------------
\* The state: the service (module.exports = new ForecastingService()), and a
\* caller with the array and the options object it passes, the completion of
\* its call, what its previous call ended with, and the frame of a call of
\* monteCarloSimulation that is followed through its loops
\* ------------------------------------------------------------------------
VARIABLES forecastingService, historicalData, options, completion, invoked, previous,
          frame

vars == <<forecastingService, historicalData, options, completion, invoked, previous,
          frame>>

\* constructor()
ForecastingService ==
    [defaultOptions |->
        [method |-> Str("linear"),
         periods |-> Num(5),
         confidence |-> Q(95, 100),
         seasonality |-> Num(1)]]

\* values a caller may pass as historicalData: an array it fills, and values
\* that are no arrays (null, and typed arrays, which have a length and elements)
EmptyArray == [kind |-> "array", elems |-> <<>>]

NoArrays ==
    {[kind |-> "null", elems |-> <<>>],
     [kind |-> "typed", elems |-> <<Num(1), Num(2)>>],
     [kind |-> "typed", elems |-> <<Num(2), Num(1), Num(0)>>]}

NoOptions == [k \in {} |-> Undefined]

NoCompletion == [kind |-> "none"]

Methods ==
    {"linear", "exponential", "moving-average", "arima", "holt-winters", "monte-carlo"}

\* the values the caller sets an option to
OptionValues(k) ==
    CASE k = "method" -> {Str(m) : m \in Methods}
      [] k = "periods" -> {Num(n) : n \in 1..MaxPeriods}
      [] k = "alpha" -> {Num(0), Q(1, 2), Num(1)}
      [] k = "windowSize" -> {Num(n) : n \in 0..MaxWindow}
      [] k \in {"p", "d", "q"} -> {Num(n) : n \in 0..MaxOrder}
      [] k = "iterations" -> {Num(n) : n \in 1..MaxSamples}
      [] k = "confidence" -> {Q(1, 2), Num(1)}

\* no call of monteCarloSimulation is in its loops
NoFrame == [kind |-> "none"]

Idle == completion.kind = "none" /\ frame.kind = "none"

Init ==
    /\ forecastingService = ForecastingService
    /\ historicalData \in {EmptyArray} \cup NoArrays
    /\ options = NoOptions
    /\ completion = NoCompletion
    /\ invoked = <<>>
    /\ previous = "none"
    /\ frame = NoFrame

\* the caller appends a data point to its array
Push ==
    /\ Idle
    /\ IsArray(historicalData)
    /\ Len(historicalData.elems) < MaxLen
    /\ \E v \in 0..MaxVal :
          historicalData' = [historicalData EXCEPT !.elems = Append(@, Num(v))]
    /\ UNCHANGED <<forecastingService, options, completion, invoked, previous, frame>>

\* the caller sets a key of its options object
SetOption(keys) ==
    /\ Idle
    /\ \E k \in keys \ DOMAIN options :
          \E v \in OptionValues(k) :
             options' = [j \in DOMAIN options \cup {k} |->
                            IF j = k THEN v ELSE options[j]]
    /\ UNCHANGED <<forecastingService, historicalData, completion, invoked, previous, frame>>

\* what a call leaves in the state
Returns(call) ==
    /\ completion' = call.completion
    /\ invoked' = call.invoked
    /\ historicalData' = call.historicalData
    /\ forecastingService' = call.this

\* forecastingService.generateForecast(historicalData, options)
GenerateForecast ==
    /\ Idle
    /\ Returns(generateForecast(forecastingService, historicalData, options))
    /\ UNCHANGED <<options, previous, frame>>

\* the caller is done with the completion and starts on its next request
Return ==
    /\ completion.kind # "none"
    /\ historicalData' \in {EmptyArray} \cup NoArrays
    /\ options' = NoOptions
    /\ completion' = NoCompletion
    /\ invoked' = <<>>
    /\ previous' = completion.kind
    /\ frame' = NoFrame
    /\ UNCHANGED forecastingService

\* forecastingService.monteCarloSimulation(historicalData, options), with the
\* draws of Math.random() it makes
MonteCarloSimulation ==
    /\ Idle
    /\ Samples(options) <= MaxSamples
    /\ \E random \in [1..Samples(options) -> LogDraws \X CosDraws] :
          \E call \in monteCarloSimulation(forecastingService, historicalData,
                                           options, random) :
             Returns(call)
    /\ UNCHANGED <<options, previous, frame>>

DispatchKeys == {"method", "periods"}

Next ==
    \/ Push
    \/ SetOption(DispatchKeys)
    \/ GenerateForecast
    \/ Return

Spec == Init /\ [][Next]_vars

\* A caller that names a method and sets the keys that method reads
Overrides(method) ==
    CASE method = "exponential" -> {"alpha"}
      [] method = "moving-average" -> {"windowSize"}
      [] method = "arima" -> {"p", "d", "q"}
      [] method = "monte-carlo" -> {"iterations", "periods", "confidence"}
      [] OTHER -> {}

SetOverride ==
    /\ "method" \in DOMAIN options
    /\ SetOption(Overrides(options.method.s))

NextOverrides ==
    \/ Push
    \/ SetOption({"method"})
    \/ SetOverride
    \/ GenerateForecast
    \/ MonteCarloSimulation
    \/ Return

SpecOverrides == Init /\ [][NextOverrides]_vars

\* A caller that asks for one method: it starts its options object with the
\* method, then sets the keys that method reads and the horizon
SelectMethod(method) ==
    /\ Idle
    /\ options = NoOptions
    /\ options' = [k \in {"method"} |-> Str(method)]
    /\ UNCHANGED <<forecastingService, historicalData, completion, invoked, previous, frame>>

NextExponential ==
    \/ Push
    \/ SelectMethod("exponential")
    \/ SetOverride
    \/ SetOption({"periods"})
    \/ GenerateForecast
    \/ Return

SpecExponential == Init /\ [][NextExponential]_vars

NextMovingAverage ==
    \/ Push
    \/ SelectMethod("moving-average")
    \/ SetOverride
    \/ SetOption({"periods"})
    \/ GenerateForecast
    \/ Return

SpecMovingAverage == Init /\ [][NextMovingAverage]_vars

\* A caller of ARIMA that leaves d and q at their defaults, 0 and 1, and sets
\* the AR order and the horizon
NextArima ==
    \/ Push
    \/ SelectMethod("arima")
    \/ SetOption({"p", "periods"})
    \/ GenerateForecast
    \/ Return

SpecArima == Init /\ [][NextArima]_vars

\* A caller of monteCarloSimulation, setting the keys it reads
NextMonteCarlo ==
    \/ Push
    \/ SetOption(Overrides("monte-carlo"))
    \/ MonteCarloSimulation
    \/ Return

SpecMonteCarlo == Init /\ [][NextMonteCarlo]_vars

\* A caller that asks for a horizon of no periods, or of less than none
NonPositivePeriods == {Num(-n) : n \in 0..MaxPeriods}

SetNonPositivePeriods ==
    /\ Idle
    /\ "periods" \notin DOMAIN options
    /\ \E v \in NonPositivePeriods :
          options' = [j \in DOMAIN options \cup {"periods"} |->
                         IF j = "periods" THEN v ELSE options[j]]
    /\ UNCHANGED <<forecastingService, historicalData, completion, invoked, previous, frame>>

NextPeriods ==
    \/ Push
    \/ SetOption({"method"})
    \/ SetNonPositivePeriods
    \/ GenerateForecast
    \/ MonteCarloSimulation
    \/ Return

SpecPeriods == Init /\ [][NextPeriods]_vars

\* A caller whose array holds elements that are no numbers
NonNumbers == {Null, Undefined}

PushNonNumber ==
    /\ Idle
    /\ IsArray(historicalData)
    /\ Len(historicalData.elems) < MaxLen
    /\ \E v \in NonNumbers :
          historicalData' = [historicalData EXCEPT !.elems = Append(@, v)]
    /\ UNCHANGED <<forecastingService, options, completion, invoked, previous, frame>>

NextElements ==
    \/ Push
    \/ PushNonNumber
    \/ SetOption({"method"})
    \/ GenerateForecast
    \/ Return

SpecElements == Init /\ [][NextElements]_vars

\* A caller of ARIMA whose differencing order runs up to, and past, the
\* length of the series
Differencings == {Num(n) : n \in 0..MaxLen}

SetDifferencing ==
    /\ Idle
    /\ "method" \in DOMAIN options
    /\ options.method = Str("arima")
    /\ "d" \notin DOMAIN options
    /\ \E v \in Differencings :
          options' = [k \in DOMAIN options \cup {"d"} |->
                         IF k = "d" THEN v ELSE options[k]]
    /\ UNCHANGED <<forecastingService, historicalData, completion, invoked, previous, frame>>

NextIntervals ==
    \/ Push
    \/ SetOption({"method"})
    \/ SetOverride
    \/ SetDifferencing
    \/ GenerateForecast
    \/ Return

SpecIntervals == Init /\ [][NextIntervals]_vars

NextDifferencing ==
    \/ Push
    \/ SelectMethod("arima")
    \/ SetDifferencing
    \/ SetOption({"p", "q"})
    \/ GenerateForecast
    \/ Return

SpecDifferencing == Init /\ [][NextDifferencing]_vars

\* ------------------------------------------------------------------------
\* monteCarloSimulation followed through its loops: frame.random holds the
\* values Math.random() has returned to the call, in the order of its calls
\* ------------------------------------------------------------------------
\* lines 364-380 and 383: the frame at the first round of the outer loop
MonteCarloEntered(par, percentChanges, mean, lastValue) ==
    [kind |-> "frame",
     par |-> par,
     moments |-> [mean |-> mean,
                  stdDev |-> Sqrt(PercentVariance(percentChanges, mean))],
     lastValue |-> lastValue,
     simulations |-> <<>>,
     i |-> 0,
     simulation |-> <<lastValue>>,
     j |-> 0,
     random |-> <<>>]

\* an inner loop that runs one round more: j <= periods
SimulationOverruns(running) == running.j <= RoundsBelow(running.par.periods)

\* line 384: j < periods
SimulationContinues(running) == running.j < RoundsBelow(running.par.periods)

\* line 382: i < iterations
IterationsContinue(running) == running.i < RoundsBelow(running.par.iterations)

\* lines 385-391: a round of the inner loop, in which boxMullerTransform calls
\* Math.random() twice (lines 436-437) and gets draws[1], then draws[2]
Sampled(running, draws) ==
    LET rand == boxMullerTransform(draws)
        percentChange == Add(running.moments.mean, Mul(running.moments.stdDev, rand))
        newValue == Mul(ToNumber(running.simulation[running.j + 1]),
                        Add(Num(1), percentChange))
    IN  [running EXCEPT !.random = Append(Append(@, draws[1]), draws[2]),
                        !.simulation = Append(@, newValue),
                        !.j = @ + 1]

\* line 393, and lines 382-383 of the round that follows
SimulationPushed(running) ==
    [running EXCEPT !.simulations = Append(@, SubSeq(running.simulation, 2,
                                                     Len(running.simulation))),
                    !.i = @ + 1,
                    !.simulation = <<running.lastValue>>,
                    !.j = 0]

EnterMonteCarlo ==
    /\ Idle
    /\ Samples(options) <= MaxSamples
    /\ IF historicalData.kind = "null"
       THEN /\ Returns(Done(forecastingService, historicalData,
                            <<"monteCarloSimulation">>, Throw("TypeError", MsgNull)))
            /\ frame' = frame
       ELSE /\ frame' = MonteCarloEntered(
                            MonteCarloParameters(options),
                            PercentChanges(historicalData.elems),
                            Div(Sum(PercentChanges(historicalData.elems)),
                                Num(Len(PercentChanges(historicalData.elems)))),
                            At(historicalData.elems, Len(historicalData.elems) - 1))
            /\ UNCHANGED <<forecastingService, historicalData, completion, invoked>>
    /\ UNCHANGED <<options, previous>>

Sample ==
    /\ frame.kind = "frame"
    /\ completion.kind = "none"
    /\ IterationsContinue(frame)
    /\ SimulationContinues(frame)
    /\ \E u1 \in LogDraws : \E u2 \in CosDraws : frame' = Sampled(frame, <<u1, u2>>)
    /\ UNCHANGED <<forecastingService, historicalData, options, completion, invoked,
                   previous>>

PushSimulation ==
    /\ frame.kind = "frame"
    /\ completion.kind = "none"
    /\ IterationsContinue(frame)
    /\ ~SimulationContinues(frame)
    /\ frame' = SimulationPushed(frame)
    /\ UNCHANGED <<forecastingService, historicalData, options, completion, invoked,
                   previous>>

\* lines 396-428: the sorts, the result and the return
SortAndReturn ==
    /\ frame.kind = "frame"
    /\ completion.kind = "none"
    /\ ~IterationsContinue(frame)
    /\ \E call \in MonteCarloSorted(forecastingService, historicalData, frame.par,
                                      frame.moments, frame.simulations,
                                      RoundsBelow(frame.par.periods)) :
          Returns(call)
    /\ UNCHANGED <<options, previous, frame>>

NextSampling ==
    \/ Push
    \/ SetOption({"iterations", "periods"})
    \/ EnterMonteCarlo
    \/ Sample
    \/ PushSimulation
    \/ SortAndReturn
    \/ Return

SpecSampling == Init /\ [][NextSampling]_vars

\* A caller that sets keys the method it selected does not read: confidence,
\* seasonality, a key no method knows, and overrides of other methods
Unconsumed(method) ==
    {"confidence", "seasonality", "trend"}
        \cup ({"alpha", "windowSize"} \ Overrides(method))

UnconsumedValue(k) ==
    CASE k = "confidence" -> Q(1, 2)
      [] k = "seasonality" -> Num(12)
      [] k = "trend" -> Str("additive")
      [] k = "alpha" -> Q(1, 2)
      [] k = "windowSize" -> Num(2)

SetUnconsumed ==
    /\ Idle
    /\ "method" \in DOMAIN options
    /\ \E k \in Unconsumed(options.method.s) \ DOMAIN options :
          options' = [j \in DOMAIN options \cup {k} |->
                         IF j = k THEN UnconsumedValue(k) ELSE options[j]]
    /\ UNCHANGED <<forecastingService, historicalData, completion, invoked, previous, frame>>

NextUnconsumed ==
    \/ Push
    \/ \E method \in Methods \ {"holt-winters", "monte-carlo"} : SelectMethod(method)
    \/ SetUnconsumed
    \/ GenerateForecast
    \/ Return

SpecUnconsumed == Init /\ [][NextUnconsumed]_vars

\* A caller of monteCarloSimulation that asks for one period, for up to one
\* iteration more than the other callers, and for a low, a middle or the
\* highest confidence
Confidences == {Q(1, 4), Q(1, 2), Num(1)}

SetPercentiles ==
    /\ Idle
    /\ options = NoOptions
    /\ \E n \in 1..(MaxSamples + 1) : \E c \in Confidences :
          options' = [k \in {"iterations", "periods", "confidence"} |->
                         CASE k = "iterations" -> Num(n)
                           [] k = "periods" -> Num(1)
                           [] k = "confidence" -> c]
    /\ UNCHANGED <<forecastingService, historicalData, completion, invoked, previous, frame>>

MonteCarloPercentiles ==
    /\ Idle
    /\ Samples(options) <= MaxSamples + 1
    /\ \E random \in [1..Samples(options) -> LogDraws \X CosDraws] :
          \E call \in monteCarloSimulation(forecastingService, historicalData,
                                           options, random) :
             Returns(call)
    /\ UNCHANGED <<options, previous, frame>>

NextPercentiles ==
    \/ Push
    \/ SetPercentiles
    \/ MonteCarloPercentiles
    \/ Return

SpecPercentiles == Init /\ [][NextPercentiles]_vars

\* ------------------------------------------------------------------------
\* The HTTP boundary: app.post('/api/forecast', ...), whose request body holds
\* historicalData, forecastPeriod and options, and whose response is a status
\* and a JSON payload
\* ------------------------------------------------------------------------
Response(status, body) == [kind |-> "response", status |-> status, body |-> body]

MsgApiData == "Valid historical data array with at least 2 points is required"

MsgApiFailed == "Failed to generate forecast"

\* the values a request may hold as forecastPeriod, and as options: an object,
\* or nothing
ForecastPeriods == {Undefined} \cup {Num(n) : n \in 1..MaxPeriods}

BodyOptions(o) == IF o = NoOptions THEN {Undefined, o} ELSE {o}

\* res.json(forecast), or the catch clause: res.status(500).json({ error })
ApiResponded(call) ==
    [call EXCEPT !.completion =
        IF @.kind = "error"
        THEN Response(500, [error |-> MsgApiFailed])
        ELSE Response(200, @)]

\* the handler, for the request body and the service that require() returns
ApiForecast(this, body) ==
    IF \/ body.historicalData.kind = "null"
       \/ ~IsArray(body.historicalData)
       \/ Len(body.historicalData.elems) < 2
    THEN Done(this, body.historicalData, <<>>, Response(400, [error |-> MsgApiData]))
    ELSE ApiResponded(
             generateForecast(this, body.historicalData,
                 Spread([k \in {"periods"} |-> Or(body.forecastPeriod, Num(5))],
                        IF body.options = Undefined
                        THEN [k \in {"method"} |-> Str("linear")]
                        ELSE body.options)))

\* a client posts its array and its options, with or without a forecastPeriod
PostForecast ==
    /\ Idle
    /\ \E forecastPeriod \in ForecastPeriods :
          \E sent \in BodyOptions(options) :
             Returns(ApiForecast(forecastingService,
                                 [historicalData |-> historicalData,
                                  forecastPeriod |-> forecastPeriod,
                                  options |-> sent]))
    /\ UNCHANGED <<options, previous, frame>>

NextApi ==
    \/ Push
    \/ SetOption({"method", "windowSize", "periods"})
    \/ PostForecast
    \/ Return

SpecApi == Init /\ [][NextApi]_vars

\* ------------------------------------------------------------------------
\* Properties of generateForecast
\* ------------------------------------------------------------------------
Supported == {"linear", "exponential", "moving-average", "arima"}

\* the value the caller asks for under key k, default being the documented one
Requested(k, default) == IF k \in DOMAIN options THEN options[k] ELSE default

\* the caller's historicalData is an array of at least 2 data points
ValidSeries == historicalData.kind = "array" /\ Len(historicalData.elems) >= 2

\* the window the caller asks for is a size from 1 to the length of the series
WindowFits ==
    LET windowSize == Requested("windowSize", Num(3))
    IN  /\ IsInteger(windowSize)
        /\ IntOf(windowSize) >= 1
        /\ IntOf(windowSize) <= Len(historicalData.elems)

\* C1: for a valid series, a supported method and a positive integer
\* options.periods (5 if the caller gives none), generateForecast returns a
\* result whose forecast and predictionIntervals both have periods elements.
C1_LengthsArePeriods ==
    LET method == Requested("method", Str("linear"))
        periods == Requested("periods", Num(5))
    IN  (/\ ~Idle
         /\ ValidSeries
         /\ method.s \in Supported
         /\ (method.s = "moving-average" => WindowFits))
        => /\ completion.kind = "result"
           /\ Len(completion.forecast) = IntOf(periods)
           /\ Len(completion.predictionIntervals) = IntOf(periods)

C1_Witness ==
    /\ completion.kind = "result"
    /\ completion.method = "arima"
    /\ "periods" \in DOMAIN options
    /\ options.periods = Num(2)
    /\ Len(completion.forecast) = 2
    /\ Len(completion.predictionIntervals) = 2

\* a prediction interval has two defined bounds that bracket the forecast
Brackets(interval, value) ==
    /\ IsNumber(interval.lower) /\ ~IsNaN(interval.lower)
    /\ IsNumber(interval.upper) /\ ~IsNaN(interval.upper)
    /\ Leq(interval.lower, ToNumber(value))
    /\ Leq(ToNumber(value), interval.upper)

\* C2: in every result of generateForecast, each prediction interval brackets
\* its point forecast, lower[i] <= forecast[i] <= upper[i], and both bounds
\* are defined numbers.
C2_IntervalsBracketForecast ==
    completion.kind = "result" =>
        \A i \in 1..Len(completion.forecast) :
            Brackets(completion.predictionIntervals[i], completion.forecast[i])

\* C3: generateForecast fails with the validation error, returns no result and
\* invokes no method, whenever historicalData is no array or has fewer than 2
\* elements, whatever the options are.
C3_InvalidSeriesRejected ==
    (~Idle /\ ~ValidSeries) =>
        /\ completion = [kind |-> "error", name |-> "Error", message |-> MsgData]
        /\ invoked = <<>>

C3_Witness ==
    /\ completion.kind = "error"
    /\ completion.message = MsgData
    /\ historicalData.kind = "array"
    /\ Len(historicalData.elems) = 1
    /\ DOMAIN options = {"method", "periods"}

\* C4: for a valid series and a method string other than linear, exponential,
\* moving-average and arima (monte-carlo among them), generateForecast fails
\* with the unsupported-method error and no method implementation is invoked.
C4_UnsupportedMethodRejected ==
    (/\ ~Idle
     /\ ValidSeries
     /\ "method" \in DOMAIN options
     /\ options.method.s \notin Supported)
    => /\ completion = [kind |-> "error", name |-> "Error", message |-> MsgMethod]
       /\ invoked = <<>>

C4_Witness ==
    /\ completion.kind = "error"
    /\ completion.message = MsgMethod
    /\ ValidSeries
    /\ options.method = Str("monte-carlo")

\* the method implementation a method string selects
Implementation(method) ==
    CASE method = "linear" -> <<"linearRegression">>
      [] method = "exponential" -> <<"exponentialSmoothing">>
      [] method = "moving-average" -> <<"movingAverage">>
      [] method = "arima" -> <<"arima">>
      [] OTHER -> <<>>

\* C5: caller keys win over the defaults: for a valid series the method routed
\* to and the horizon used are the caller's method and periods when the caller
\* gives them, and linear and 5 when it omits them.
C5_CallerKeysWin ==
    LET method == Requested("method", Str("linear"))
        periods == Requested("periods", Num(5))
    IN  (~Idle /\ ValidSeries) =>
            /\ invoked = Implementation(method.s)
            /\ completion.kind = "result" =>
                  /\ completion.method = method.s
                  /\ Len(completion.forecast) = IntOf(periods)

C5_Witness ==
    /\ options = NoOptions
    /\ completion.kind = "result"
    /\ completion.method = "linear"
    /\ invoked = <<"linearRegression">>
    /\ Len(completion.forecast) = 5

\* the documented default of a method-specific override
DefaultOf(k) ==
    CASE k = "alpha" -> Q(3, 10)
      [] k = "windowSize" -> Num(3)
      [] k = "p" -> Num(1)
      [] k = "d" -> Num(0)
      [] k = "q" -> Num(1)
      [] k = "iterations" -> Num(1000)

\* the values of the domain of a method-specific override
InDomain(k, v) ==
    CASE k = "alpha" -> Leq(Num(0), v) /\ Leq(v, Num(1))
      [] k \in {"windowSize", "iterations"} -> IsInteger(v) /\ IntOf(v) >= 1
      [] k \in {"p", "d", "q"} -> IsInteger(v) /\ IntOf(v) >= 0

\* C6: a method-specific override the caller supplies (alpha, windowSize, p,
\* d, q, iterations), whatever value of the option's domain it is, alpha = 0,
\* p = 0 and q = 0 included, is the value the method reports in statistics,
\* and the documented default is reported only when the key is absent.
C6_OverridesReported ==
    completion.kind = "result" =>
        \A k \in DOMAIN completion.statistics
                 \cap {"alpha", "windowSize", "p", "d", "q", "iterations"} :
            IF k \in DOMAIN options
            THEN InDomain(k, options[k]) => completion.statistics[k] = options[k]
            ELSE completion.statistics[k] = DefaultOf(k)

\* C7: no forecasting operation mutates its input: when a call of
\* generateForecast or monteCarloSimulation returns or fails, the caller's
\* array holds the elements it held before the call, in the same order.
C7_InputNotMutated ==
    [][(Idle /\ ~Idle') => historicalData' = historicalData]_vars

C7_Witness ==
    /\ completion.kind = "result"
    /\ completion.method = "arima"
    /\ {"p", "d"} \subseteq DOMAIN options
    /\ options.d = Num(0)
    /\ options.p = Num(2)
    /\ Len(completion.forecast) = 5
    /\ Len(historicalData.elems) = 2
    /\ completion.historicalData = historicalData

\* C8: generateForecast is deterministic and stateless: whatever calls were
\* made before, a call of generateForecast ends with what the service as
\* constructed returns (or fails with) for the same series and options, so
\* two calls with equal arguments end alike; and defaultOptions stay as the
\* constructor set them.
C8_CallsAreIndependent ==
    /\ forecastingService = ForecastingService
    /\ (~Idle /\ invoked # <<"monteCarloSimulation">>) =>
           completion = generateForecast(ForecastingService, historicalData,
                                         options).completion

C8_Witness ==
    /\ previous = "result"
    /\ options = NoOptions
    /\ completion.kind = "result"
    /\ completion.method = "linear"
    /\ Len(completion.forecast) = 5
    /\ forecastingService = ForecastingService

\* the line through the first two points of a series of integers:
\* y[k] = a + b*k for k = 1, 2
LineThrough(y) ==
    [a |-> 2 * IntOf(y[1]) - IntOf(y[2]), b |-> IntOf(y[2]) - IntOf(y[1])]

PerfectlyLinear(y) ==
    /\ Len(y) >= 3
    /\ LineThrough(y).b # 0
    /\ \A k \in 1..Len(y) : IntOf(y[k]) = LineThrough(y).a + LineThrough(y).b * k

\* C9: linear regression on a perfectly linear series y[k] = a + b*k, n >= 3,
\* b # 0, gives slope b, intercept a, RMSE 0 and R-squared 1, and forecasts
\* a + b*(n+i) for i = 1..periods.
C9_LineRecovered ==
    (/\ completion.kind = "result"
     /\ completion.method = "linear"
     /\ PerfectlyLinear(historicalData.elems))
    => LET line == LineThrough(historicalData.elems)
           n == Len(historicalData.elems)
       IN  /\ completion.statistics.slope = Num(line.b)
           /\ completion.statistics.intercept = Num(line.a)
           /\ completion.statistics.rmse = Num(0)
           /\ completion.statistics.rSquared = Num(1)
           /\ Len(completion.forecast) = IntOf(Requested("periods", Num(5)))
           /\ \A i \in 1..Len(completion.forecast) :
                  completion.forecast[i] = Num(line.a + line.b * (n + i))

C9_Witness ==
    /\ completion.kind = "result"
    /\ completion.method = "linear"
    /\ historicalData.elems = <<Num(2), Num(1), Num(0)>>
    /\ completion.statistics.slope = Num(-1)
    /\ completion.forecast = <<Num(-1), Num(-2)>>

\* C10: for a series of exactly 2 points, linear regression detects the zero
\* denominator n - 2 of its standard error: the call fails, or every bound of
\* the prediction intervals it returns is a finite number.
C10_ShortSeriesGuarded ==
    (/\ ~Idle
     /\ ValidSeries
     /\ Len(historicalData.elems) = 2
     /\ Requested("method", Str("linear")) = Str("linear"))
    => \/ completion.kind = "error"
       \/ \A i \in 1..Len(completion.predictionIntervals) :
              /\ IsFinite(completion.predictionIntervals[i].lower)
              /\ IsFinite(completion.predictionIntervals[i].upper)

\* every data point of the series equals the first
ConstantSeries(y) == \A k \in 1..Len(y) : y[k] = y[1]

\* C11: for a constant series (total sum of squares 0; 3 points or more, so
\* that n - 2 is not zero), linear regression detects the zero denominator:
\* the call fails, or statistics.rSquared and every bound of the prediction
\* intervals it returns is a finite number.
C11_ConstantSeriesGuarded ==
    (/\ ~Idle
     /\ ValidSeries
     /\ Len(historicalData.elems) >= 3
     /\ ConstantSeries(historicalData.elems)
     /\ Requested("method", Str("linear")) = Str("linear"))
    => \/ completion.kind = "error"
       \/ /\ IsFinite(completion.statistics.rSquared)
          /\ \A i \in 1..Len(completion.predictionIntervals) :
                 /\ IsFinite(completion.predictionIntervals[i].lower)
                 /\ IsFinite(completion.predictionIntervals[i].upper)

\* ------------------------------------------------------------------------
\* Properties of the methods
\* ------------------------------------------------------------------------
\* smoothed[i] (i from 0) as the recurrence defines it:
\* smoothed[0] = series[0], smoothed[i] = alpha*series[i] + (1-alpha)*smoothed[i-1]
RECURSIVE SmoothedValue(_, _, _)
SmoothedValue(series, alpha, i) ==
    IF i = 0 THEN series[1]
    ELSE Add(Mul(alpha, series[i + 1]),
             Mul(Sub(Num(1), alpha), SmoothedValue(series, alpha, i - 1)))

\* C12: every forecast point of exponential smoothing equals smoothed[n-1] of
\* the recurrence smoothed[0] = series[0], smoothed[i] = alpha*series[i] +
\* (1-alpha)*smoothed[i-1], alpha being the smoothing factor the result
\* reports; with alpha = 1 every forecast point is the last observed value.
C12_ForecastIsLastSmoothed ==
    (completion.kind = "result" /\ completion.method = "exponential") =>
        LET series == historicalData.elems
            n == Len(series)
        IN  /\ Len(completion.forecast) = IntOf(Requested("periods", Num(5)))
            /\ \A i \in 1..Len(completion.forecast) :
                   completion.forecast[i] =
                       SmoothedValue(series, completion.statistics.alpha, n - 1)
            /\ Requested("alpha", Undefined) = Num(1) =>
                   \A i \in 1..Len(completion.forecast) :
                       completion.forecast[i] = series[n]

C12_Witness ==
    /\ completion.kind = "result"
    /\ completion.method = "exponential"
    /\ Requested("alpha", Undefined) = Num(1)
    /\ historicalData.elems = <<Num(1), Num(2), Num(0)>>
    /\ completion.forecast = <<Num(0), Num(0), Num(0), Num(0), Num(0)>>

\* the caller asks for the moving average of a valid series with a window
\* size of at least 1, or with none (the default 3)
MovingAverageRequested ==
    /\ ~Idle
    /\ ValidSeries
    /\ Requested("method", Undefined) = Str("moving-average")
    /\ IsInteger(Requested("windowSize", Num(3)))
    /\ IntOf(Requested("windowSize", Num(3))) >= 1

\* C13: moving average fails with the window error and returns no result
\* whenever the window size (the caller's, or the default 3) exceeds the
\* length of the series, and returns a result when it does not.
C13_WindowChecked ==
    MovingAverageRequested =>
        IF IntOf(Requested("windowSize", Num(3))) > Len(historicalData.elems)
        THEN completion = [kind |-> "error", name |-> "Error", message |-> MsgWindow]
        ELSE completion.kind = "result" /\ completion.method = "moving-average"

C13_Witness ==
    /\ MovingAverageRequested
    /\ Requested("windowSize", Undefined) = Num(4)
    /\ Len(historicalData.elems) = 3
    /\ completion.kind = "error"
    /\ completion.message = MsgWindow

\* the unweighted mean of the last w values of a series
MeanOfLast(series, w) ==
    Div(Sum(SubSeq(series, Len(series) - w + 1, Len(series))), Num(w))

\* C14: for a window size from 1 to the length of the series, every forecast
\* point of the moving average is the unweighted mean of the last windowSize
\* values of the series.
C14_ForecastIsLastWindowMean ==
    (/\ MovingAverageRequested
     /\ IntOf(Requested("windowSize", Num(3))) <= Len(historicalData.elems))
    => /\ completion.kind = "result"
       /\ Len(completion.forecast) = IntOf(Requested("periods", Num(5)))
       /\ \A i \in 1..Len(completion.forecast) :
              completion.forecast[i] =
                  MeanOfLast(historicalData.elems,
                             IntOf(Requested("windowSize", Num(3))))

C14_Witness ==
    /\ MovingAverageRequested
    /\ Requested("windowSize", Undefined) = Num(2)
    /\ historicalData.elems = <<Num(0), Num(1), Num(2)>>
    /\ completion.kind = "result"
    /\ completion.forecast = <<Q(3, 2), Q(3, 2)>>

\* x to the power k, k >= 0
RECURSIVE Power(_, _)
Power(x, k) == IF k = 0 THEN Num(1) ELSE Mul(x, Power(x, k - 1))

\* the sum over the lags j = 0..p-1 of (0.7/p) times the j-th most recent
\* value of a buffer
ArStep(buffer, p) ==
    Sum([j \in 1..p |-> Mul(Div(Q(7, 10), Num(p)), buffer[Len(buffer) - (j - 1)])])

\* the caller asks for ARIMA on a valid series with d = 0 (or no d) and an
\* AR order p from 1 to the length of the series (or no p: the default 1)
ArimaRequested ==
    /\ ~Idle
    /\ ValidSeries
    /\ Requested("method", Undefined) = Str("arima")
    /\ Requested("d", Num(0)) = Num(0)
    /\ IntOf(Requested("p", Num(1))) >= 1
    /\ IntOf(Requested("p", Num(1))) <= Len(historicalData.elems)

\* C15: ARIMA with d = 0 makes forecast step k the sum over the lags
\* j = 0..p-1 of (0.7/p) times the j-th most recent value of the buffer that
\* holds the series followed by the forecasts of the steps before k; with
\* p = 1, forecast[k] = 0.7^(k+1) * last value of the series.
C15_ArStepsSeePriorForecasts ==
    ArimaRequested =>
        LET series == historicalData.elems
            p == IntOf(Requested("p", Num(1)))
        IN  /\ completion.kind = "result"
            /\ Len(completion.forecast) = IntOf(Requested("periods", Num(5)))
            /\ \A k \in 1..Len(completion.forecast) :
                   /\ completion.forecast[k] =
                          ArStep(series \o SubSeq(completion.forecast, 1, k - 1), p)
                   /\ p = 1 =>
                          completion.forecast[k] =
                              Mul(Power(Q(7, 10), k), series[Len(series)])

C15_Witness ==
    /\ ArimaRequested
    /\ Requested("p", Undefined) = Num(2)
    /\ historicalData.elems = <<Num(2), Num(1)>>
    /\ completion.kind = "result"
    /\ completion.forecast = <<Q(21, 20), Q(287, 400)>>

\* ------------------------------------------------------------------------
\* Properties of monteCarloSimulation
\* ------------------------------------------------------------------------
\* a call of monteCarloSimulation has returned a result
MonteCarloReturned ==
    /\ invoked = <<"monteCarloSimulation">>
    /\ completion.kind = "result"

\* C16: Monte Carlo on a constant series (percent changes of mean 0 and
\* standard deviation 0) gives, whatever the random draws are, for every
\* forecast period a point forecast, a lower bound and an upper bound that
\* all equal the last value of the series.  (Confidence levels below 1.)
C16_ConstantSeriesCollapses ==
    (/\ MonteCarloReturned
     /\ ValidSeries
     /\ ConstantSeries(historicalData.elems)
     /\ completion.statistics.mean = Num(0)
     /\ completion.statistics.stdDev = Num(0)
     /\ Requested("confidence", Q(95, 100)) # Num(1))
    => \A i \in 1..Len(completion.forecast) :
           /\ completion.forecast[i] = historicalData.elems[Len(historicalData.elems)]
           /\ completion.predictionIntervals[i].lower = completion.forecast[i]
           /\ completion.predictionIntervals[i].upper = completion.forecast[i]

\* values in ascending order: none is followed by a smaller one
SortedAscending(values) ==
    \A k \in 1..(Len(values) - 1) : ~Less(values[k + 1], values[k])

\* the ascending arrangements of the values the simulations reach in period i
SortedValues(simulations, i) ==
    {sorted \in {[k \in 1..Len(simulations) |-> simulations[order[k]][i]] :
                     order \in Permutations(1..Len(simulations))} :
        SortedAscending(sorted)}

\* C17: for each forecast period Monte Carlo reports as point forecast the
\* arithmetic mean of the values simulated for that period over all
\* iterations, and as bounds the elements of the ascending-sorted values at
\* the indices floor(iterations*(1-confidence)/2) (lower) and
\* floor(iterations*(1-(1-confidence)/2)) (upper), for the random draws of the
\* call.  (An index that is no index of the sorted values gives undefined.)
C17_MeanAndIndexedBounds ==
    MonteCarloReturned =>
        LET iterations == Requested("iterations", Num(1000))
            periods == IntOf(Requested("periods", Num(5)))
            confidence == Requested("confidence", Q(95, 100))
            lowerIndex == Floor(Div(Mul(iterations, Sub(Num(1), confidence)), Num(2)))
            upperIndex == Floor(Mul(iterations,
                                    Sub(Num(1), Div(Sub(Num(1), confidence), Num(2)))))
        IN  /\ Len(completion.forecast) = periods
            /\ Len(completion.predictionIntervals) = periods
            /\ \E random \in [1..(IntOf(iterations) * periods) -> LogDraws \X CosDraws] :
                  LET simulations ==
                          Simulations(At(historicalData.elems,
                                         Len(historicalData.elems) - 1),
                                      [mean |-> completion.statistics.mean,
                                       stdDev |-> completion.statistics.stdDev],
                                      random, IntOf(iterations), periods)
                  IN  \A i \in 1..periods :
                          /\ completion.forecast[i] =
                                 Div(Sum([k \in 1..IntOf(iterations) |->
                                             simulations[k][i]]),
                                     iterations)
                          /\ \E sorted \in SortedValues(simulations, i) :
                                 /\ completion.predictionIntervals[i].lower =
                                        At(sorted, IntOf(lowerIndex))
                                 /\ completion.predictionIntervals[i].upper =
                                        At(sorted, IntOf(upperIndex))

C17_Witness ==
    /\ MonteCarloReturned
    /\ historicalData.elems = <<Num(1), Num(2), Num(1)>>
    /\ Requested("iterations", Undefined) = Num(2)
    /\ Requested("confidence", Undefined) = Q(1, 2)
    /\ completion.forecast = <<Q(5, 4)>>
    /\ completion.predictionIntervals = <<[lower |-> Q(1, 2), upper |-> Num(2)]>>

\* C19: monteCarloSimulation fails with the validation error of
\* generateForecast, and returns no result, when historicalData is no array
\* or has fewer than 2 elements.
C19_MonteCarloValidates ==
    (/\ ~Idle
     /\ invoked = <<"monteCarloSimulation">>
     /\ ~ValidSeries)
    => completion = [kind |-> "error", name |-> "Error", message |-> MsgData]

\* ------------------------------------------------------------------------
\* Properties of the horizon
\* ------------------------------------------------------------------------
\* C18: a request with options.periods of 0 or less, for a valid series, is
\* rejected with a validation error by generateForecast for each of the four
\* methods and by monteCarloSimulation: no result is returned.
C18_NonPositivePeriodsRejected ==
    (/\ ~Idle
     /\ ValidSeries
     /\ "periods" \in DOMAIN options
     /\ Leq(options.periods, Num(0))
     /\ \/ invoked = <<"monteCarloSimulation">>
        \/ Requested("method", Str("linear")).s \in Supported)
    => /\ completion.kind = "error"
       /\ completion.name = "Error"

\* ------------------------------------------------------------------------
\* Properties of the HTTP boundary
\* ------------------------------------------------------------------------
\* the response is a client error with an error payload
ClientError ==
    /\ completion.status \in 400..499
    /\ "error" \in DOMAIN completion.body

\* the request asks for a moving average over a window (of at least 1, or
\* the default 3) that is larger than the series
WindowTooLarge ==
    /\ Requested("method", Str("linear")) = Str("moving-average")
    /\ IsInteger(Requested("windowSize", Num(3)))
    /\ IntOf(Requested("windowSize", Num(3))) >= 1
    /\ IntOf(Requested("windowSize", Num(3))) > Len(historicalData.elems)

\* C20: /api/forecast answers every validation failure (series missing, no
\* array or shorter than 2; moving-average window larger than the series) and
\* every unsupported method string with a 4xx status and an error payload.
C20_FailuresAreClientErrors ==
    completion.kind = "response" =>
        /\ ~ValidSeries => ClientError
        /\ (ValidSeries /\ WindowTooLarge) => ClientError
        /\ (ValidSeries /\ Requested("method", Str("linear")).s \notin Supported)
               => ClientError

\* ------------------------------------------------------------------------
\* Further properties of generateForecast and its methods
\* ------------------------------------------------------------------------
\* C21: generateForecast fails with the validation error, and computes no
\* forecast, when historicalData is an array of 2 elements or more of which
\* one is no number (null, undefined).
C21_NonNumbersRejected ==
    (/\ ~Idle
     /\ ValidSeries
     /\ \E k \in 1..Len(historicalData.elems) : ~IsNumber(historicalData.elems[k]))
    => /\ completion = [kind |-> "error", name |-> "Error", message |-> MsgData]
       /\ invoked = <<>>

\* The width of the k-th prediction interval of the returned result
IntervalWidth(k) ==
    Sub(completion.predictionIntervals[k].upper, completion.predictionIntervals[k].lower)

\* The error scale of the method that returned: the series' standard
\* deviation for ARIMA, the reported RMSE for the other two
ErrorScale ==
    IF completion.method = "arima"
    THEN standardDeviation(historicalData.elems)
    ELSE completion.statistics.rmse

FlatOrGrowing == {"exponential", "moving-average", "arima"}

WithQ(q) ==
    generateForecast(forecastingService, historicalData,
                     [k \in DOMAIN options \cup {"q"} |->
                         IF k = "q" THEN q ELSE options[k]]).completion

\* C23: the MA order has no influence on the forecast: an arima call returns
\* the forecast and the prediction intervals that the same call returns with
\* any other q; q is reported in the statistics block only, and that block
\* holds exactly p, d and q.
C23_MaOrderWithoutInfluence ==
    (/\ completion.kind = "result"
     /\ completion.method = "arima")
    => /\ \A q \in OptionValues("q") :
             LET other == WithQ(q)
             IN  /\ other.kind = "result"
                 /\ other.forecast = completion.forecast
                 /\ other.predictionIntervals = completion.predictionIntervals
                 /\ other.statistics.q = Or(q, Num(1))
       /\ DOMAIN completion.statistics = {"p", "d", "q"}
       /\ completion.statistics.q = Or(Get(options, "q"), Num(1))

C23_Witness ==
    /\ completion.kind = "result"
    /\ completion.method = "arima"
    /\ Requested("q", Undefined) = Num(2)
    /\ Requested("d", Undefined) = Num(1)
    /\ Requested("p", Undefined) = Num(2)
    /\ completion.statistics.q = Num(2)
    /\ WithQ(Num(1)).statistics.q = Num(1)
    /\ WithQ(Num(1)).forecast = completion.forecast
    /\ \E k \in 1..Len(completion.forecast) : ~IsZero(completion.forecast[k])

\* the AR step over a buffer: the sum over the lags j = 0..p-1 that the buffer
\* has of (0.7/p) times its j-th most recent value
ArStepWithin(buffer, p) ==
    Sum([j \in 1..(IF p <= Len(buffer) THEN p ELSE Len(buffer)) |->
            Mul(Div(Q(7, 10), Num(p)), buffer[Len(buffer) - (j - 1)])])

\* the AR order in use: options.p || 1
ArOrder == IF Requested("p", Num(0)) = Num(0) THEN 1 ELSE IntOf(Requested("p", Num(0)))

\* the caller asks for ARIMA with d = 1 on a valid series
DifferencedOnce ==
    /\ ~Idle
    /\ ValidSeries
    /\ Requested("method", Undefined) = Str("arima")
    /\ Requested("d", Undefined) = Num(1)

\* what the returned forecast adds at step k to the value before it, the
\* value before the first step being the last observed value
ForecastStep(k) ==
    Sub(completion.forecast[k],
        IF k = 1 THEN historicalData.elems[Len(historicalData.elems)]
        ELSE completion.forecast[k - 1])

\* C24: ARIMA with d = 1 differences the series once, forecasts the
\* differences and returns their cumulative sum seeded with the last observed
\* value: forecast[k] = series[n-1] + the sum of the first k+1 differenced
\* forecasts, each of which is the AR step over the differences followed by
\* the differenced forecasts before it.
C24_CumulativeSumFromLastValue ==
    DifferencedOnce =>
        LET series == historicalData.elems
            differences == [k \in 1..(Len(series) - 1) |-> Sub(series[k + 1], series[k])]
            steps == [k \in 1..Len(completion.forecast) |-> ForecastStep(k)]
        IN  /\ completion.kind = "result"
            /\ Len(completion.forecast) = IntOf(Requested("periods", Num(5)))
            /\ \A k \in 1..Len(completion.forecast) :
                   /\ steps[k] = ArStepWithin(differences \o SubSeq(steps, 1, k - 1), ArOrder)
                   /\ completion.forecast[k] =
                          Add(series[Len(series)], Sum(SubSeq(steps, 1, k)))

C24_Witness ==
    /\ DifferencedOnce
    /\ completion.kind = "result"
    /\ historicalData.elems = <<Num(0), Num(2), Num(1)>>
    /\ Requested("p", Undefined) = Num(2)
    /\ completion.forecast[1] = Q(27, 20)
    /\ ForecastStep(2) = Q(-91, 400)

\* C25: every standard-normal sample consumes exactly two uniform draws and
\* one sample is taken per iteration and period: after i iterations and j
\* rounds of the next one Math.random() has been called 2 * (i * periods + j)
\* times, every simulated path has exactly periods values, and a call that
\* has returned a result has consumed 2 * iterations * periods draws for
\* iterations paths.
C25_TwoDrawsPerSample ==
    frame.kind = "frame" =>
        LET iterations == IntOf(Requested("iterations", Num(1000)))
            periods == IntOf(Requested("periods", Num(5)))
        IN  /\ Len(frame.random) = 2 * (frame.i * periods + frame.j)
            /\ Len(frame.simulation) = frame.j + 1
            /\ \A k \in 1..Len(frame.simulations) :
                   Len(frame.simulations[k]) = periods
            /\ completion.kind # "none" =>
                   /\ completion.kind = "result"
                   /\ Len(frame.random) = 2 * iterations * periods
                   /\ Len(frame.simulations) = iterations
                   /\ Len(completion.forecast) = periods

C25_Witness ==
    /\ frame.kind = "frame"
    /\ completion.kind = "result"
    /\ Requested("iterations", Undefined) = Num(2)
    /\ Requested("periods", Undefined) = Num(1)
    /\ Len(frame.random) = 4
    /\ frame.random = <<"exp(-1/2)", "0", "exp(-1/2)", "1/2">>
    /\ Len(frame.simulations) = 2
    /\ frame.simulations[1] # frame.simulations[2]
    /\ ~IsNaN(completion.forecast[1])

\* The completion of the call of the state with the key k left out of options
Without(k) ==
    generateForecast(forecastingService, historicalData,
                     [j \in DOMAIN options \ {k} |-> options[j]]).completion

\* C26: option keys that a method does not consume have no effect on its
\* result: with each of the four dispatcher methods, a call whose options hold
\* confidence, seasonality, an unknown key or another method's override ends
\* as the call without that key ends, with the same forecast, prediction
\* intervals and statistics; the interval multiplier is 1.96 whatever
\* confidence is.
C26_UnconsumedKeysWithoutEffect ==
    (/\ ~Idle
     /\ "method" \in DOMAIN options
     /\ options.method.s \in Supported)
    => /\ \A k \in DOMAIN options \ {"method"} :
             LET other == Without(k)
             IN  IF completion.kind = "result"
                 THEN /\ other.kind = "result"
                      /\ other.forecast = completion.forecast
                      /\ other.predictionIntervals = completion.predictionIntervals
                      /\ other.statistics = completion.statistics
                 ELSE other = completion
       /\ (completion.kind = "result" /\ completion.method = "exponential")
          => Sub(completion.predictionIntervals[1].upper, completion.forecast[1])
               = Mul(Mul(Q(196, 100), completion.statistics.rmse), Sqrt(Num(2)))

C26_Witness ==
    /\ completion.kind = "result"
    /\ completion.method = "exponential"
    /\ DOMAIN options = {"method", "confidence", "seasonality", "trend", "windowSize"}
    /\ options.confidence = Q(1, 2)
    /\ options.windowSize = Num(2)
    /\ Without("confidence").predictionIntervals = completion.predictionIntervals
    /\ Less(Num(0), completion.statistics.rmse)

\* C27: in every result of monteCarloSimulation with a confidence in (0,1),
\* whatever the random draws were, the point forecast of each period lies
\* within its interval: lower[i] <= forecast[i] <= upper[i].  (Stated for
\* valid series and for the draws that leave every point forecast finite.)
C27_ForecastWithinInterval ==
    (/\ MonteCarloReturned
     /\ ValidSeries
     /\ Less(Num(0), Requested("confidence", Q(95, 100)))
     /\ Less(Requested("confidence", Q(95, 100)), Num(1))
     /\ \A i \in 1..Len(completion.forecast) : IsFinite(completion.forecast[i]))
    => \A i \in 1..Len(completion.forecast) :
           /\ IsNumber(completion.predictionIntervals[i].lower)
           /\ IsNumber(completion.predictionIntervals[i].upper)
           /\ Leq(completion.predictionIntervals[i].lower, completion.forecast[i])
           /\ Leq(completion.forecast[i], completion.predictionIntervals[i].upper)

\* C28: for every iterations >= 1 and every confidence with 0 < confidence <= 1
\* both percentile indices of monteCarloSimulation are positions of the sorted
\* values of a period (0 <= lowerIndex <= upperIndex <= iterations - 1), so
\* that both bounds of every interval are numbers taken from the simulated
\* values.
C28_PercentileIndicesValid ==
    (/\ MonteCarloReturned
     /\ ValidSeries
     /\ Less(Num(0), Requested("confidence", Q(95, 100)))
     /\ Leq(Requested("confidence", Q(95, 100)), Num(1)))
    => LET iterations == Requested("iterations", Num(1000))
           confidence == Requested("confidence", Q(95, 100))
           lowerIndex == Floor(Div(Mul(iterations, Sub(Num(1), confidence)), Num(2)))
           upperIndex == Floor(Mul(iterations,
                                   Sub(Num(1), Div(Sub(Num(1), confidence), Num(2)))))
       IN  /\ Leq(Num(0), lowerIndex)
           /\ Leq(lowerIndex, upperIndex)
           /\ Leq(upperIndex, Sub(iterations, Num(1)))
           /\ \A i \in 1..Len(completion.predictionIntervals) :
                  /\ IsNumber(completion.predictionIntervals[i].lower)
                  /\ IsNumber(completion.predictionIntervals[i].upper)

\* The response to the request of the state when it carries forecastPeriod
\* and the options object sent
Posted(forecastPeriod, sent) ==
    ApiForecast(forecastingService,
                [historicalData |-> historicalData,
                 forecastPeriod |-> forecastPeriod,
                 options |-> sent]).completion

\* C29: a successful /api/forecast response has a forecast of as many values
\* as the request's forecastPeriod when the request supplies it, and of 5 when
\* it does not, whatever keys the options object of the request holds; and a
\* request without options is answered with the linear method.
C29_ForecastPeriodDecidesLength ==
    completion.kind = "response" =>
        \A forecastPeriod \in ForecastPeriods : \A sent \in BodyOptions(options) :
            Posted(forecastPeriod, sent).status = 200 =>
                /\ Len(Posted(forecastPeriod, sent).body.forecast)
                       = IF forecastPeriod = Undefined THEN 5 ELSE IntOf(forecastPeriod)
                /\ sent = Undefined => Posted(forecastPeriod, sent).body.method = "linear"

\* C30: ARIMA's un-differencing inverts its differencing for every order: on
\* a constant series c of length n, with 1 <= d < n (d = 2 among them), the
\* differenced forecasts are all 0 and the returned forecast is c at every
\* period.
C30_UndifferencingInverts ==
    (/\ ~Idle
     /\ ValidSeries
     /\ Requested("method", Undefined) = Str("arima")
     /\ ConstantSeries(historicalData.elems)
     /\ IntOf(Requested("d", Num(0))) >= 1
     /\ IntOf(Requested("d", Num(0))) < Len(historicalData.elems))
    => /\ completion.kind = "result"
       /\ \A k \in 1..Len(completion.forecast) :
              completion.forecast[k] = historicalData.elems[1]

====
